---- MODULE Spec2Model ----
(***************************************************************************)
(* databaseBreaker: cmd/main.go.                                           *)
(*                                                                         *)
(* DatabaseBreaker wraps a connection factory (dbCircuit) in a closure     *)
(* that counts consecutive failures and, at or beyond failureThreshold,    *)
(* rejects calls until an exponentially growing delay since the last       *)
(* attempt has passed.  main() makes one call through the breaker and, if  *)
(* it fails, starts a goroutine that retries on a 4 s ticker until it      *)
(* connects or a 32 s deadline has passed.                                 *)
(*                                                                         *)
(* Time is counted in whole seconds.  A time.Duration is a 64-bit signed   *)
(* count of nanoseconds and is modelled as a sequence of 64 bits, most     *)
(* significant first, so that the shift of line 49 wraps as it does in Go. *)
(* failureThreshold is a uint, 64 bits wide as on every 64-bit platform,   *)
(* and is kept as its 64 bits, so that int(failureThreshold) of line 46    *)
(* is the conversion Go makes.                                             *)
(***************************************************************************)
EXTENDS Bags, FiniteSets, Integers, Sequences, TLC

VARIABLES
    failureThreshold,     \* DatabaseBreaker's parameter (line 39), a uint as 64 bits
    consecutiveFailures,  \* line 40
    lastAttempt,          \* line 41
    mu,                   \* line 42: [readers |-> Nat, writer |-> BOOLEAN]
    now,                  \* the clock read by time.Now()
    calls,                \* bag of the calls of the closure (line 44) in progress
    rets,                 \* what the closure returned to main and to the goroutine
    started,              \* number of calls of the closure started so far
    invoked,              \* number of dbCircuit invocations so far (line 57)
    failures,             \* number of dbCircuit invocations that returned an error
    successes,            \* number of dbCircuit invocations that returned a connection
    peak,                 \* largest number of calls that were in progress at once
    granted,              \* the connections the closure returned with a nil error
    ev,                   \* the step taken last, with the state it started from
    mainPc,               \* position of main (lines 71-110)
    retryPc,              \* position of the goroutine of line 79
    roachdb,              \* line 74 / line 95
    dbStream,             \* line 77: "nil" until made, then "open"
    wait,                 \* line 76: "nil", "open", "closed"
    routineDeadline,      \* line 80
    ticker,               \* line 81: [active, next, buffered]
    spawned,              \* number of goroutines started by line 79
    failLines             \* number of lines printed by line 87

gateVars == <<failureThreshold, consecutiveFailures, lastAttempt, mu>>
histVars == <<started, invoked, failures, successes, peak, granted>>
mainVars == <<mainPc, retryPc, roachdb, dbStream, wait, routineDeadline, ticker,
              spawned, failLines>>
vars == <<failureThreshold, consecutiveFailures, lastAttempt, mu, now, calls, rets,
          started, invoked, failures, successes, peak, granted, ev,
          mainPc, retryPc, roachdb, dbStream, wait, routineDeadline, ticker,
          spawned, failLines>>

---------------------------------------------------------------------------
(* Bounds of the model.                                                    *)

\* SpecGate: thresholds 0..MaxThreshold, at most NumCallers calls at once,
\* MaxCalls calls in all, and the clock runs to MaxTime.  SpecWide: the same
\* with the largest uint as the threshold.
MaxThreshold == 1
NumCallers == 2
MaxCalls == 3
MaxTime == 5
\* SpecStorm: StormCallers callers arrive at the same second.
StormCallers == 35
\* Spec: the clock of main() runs to MaxClock and dbCircuit returns within
\* MaxLatency seconds.
MaxClock == 60
MaxLatency == 5

---------------------------------------------------------------------------
(* 64-bit integers: uint, int, and time.Duration (two's complement         *)
(* nanoseconds).                                                           *)

DurationBits == 64
NanosPerSecond == 1000000000
\* Model times stay far below Horizon seconds; a delay of Horizon or more
\* seconds is never reached by the model's clock.
Horizon == 2^30

Zeros(n) == [i \in 1..n |-> 0]

RECURSIVE NatBits(_, _)
\* the n low bits of the natural number v, most significant first
NatBits(v, n) == IF n = 0 THEN <<>> ELSE Append(NatBits(v \div 2, n - 1), v % 2)

\* time.Second * 2 (line 49), as a Duration
TwoSeconds == NatBits(2 * NanosPerSecond, DurationBits)

\* x << k on a 64-bit integer: bits shifted out are lost, a count of 64 or
\* more gives 0
ShiftLeft(x, k) ==
    IF k >= DurationBits THEN Zeros(DurationBits)
    ELSE SubSeq(x, k + 1, DurationBits) \o Zeros(k)

IsNegative(x) == x[1] = 1

RECURSIVE Increment(_, _)
\* x + 1 on the i low-order-first position from the right
Increment(x, i) ==
    IF i = 0 THEN x
    ELSE IF x[i] = 0 THEN [x EXCEPT ![i] = 1]
    ELSE Increment([x EXCEPT ![i] = 0], i - 1)

\* -x in two's complement
Negate(x) == Increment([i \in 1..DurationBits |-> 1 - x[i]], DurationBits)

\* 2 * q + b, capped at Horizon
Double(q, b) == IF q >= Horizon \div 2 THEN Horizon ELSE 2 * q + b

RECURSIVE DivStep(_, _, _)
\* long division of the non-negative x by NanosPerSecond from bit i on, with
\* s = <<quotient so far (capped at Horizon), remainder so far>>
DivStep(x, i, s) ==
    IF i > DurationBits THEN s
    ELSE IF 2 * s[2] + x[i] >= NanosPerSecond
         THEN DivStep(x, i + 1, <<Double(s[1], 1), 2 * s[2] + x[i] - NanosPerSecond>>)
         ELSE DivStep(x, i + 1, <<Double(s[1], 0), 2 * s[2] + x[i]>>)

\* <<x / NanosPerSecond (capped at Horizon), x % NanosPerSecond>>, x >= 0
DivMod(x) == DivStep(x, 1, <<0, 0>>)

\* the largest whole number of seconds that is <= the duration x
FloorSeconds(x) ==
    IF IsNegative(x)
    THEN LET qr == DivMod(Negate(x))
         IN IF qr[2] = 0 THEN -qr[1] ELSE -qr[1] - 1
    ELSE DivMod(x)[1]

\* the positions of the bits of x that are 1
Ones(x) == {i \in 1..Len(x) : x[i] = 1}

RECURSIVE SumOfPowers(_, _)
\* the sum of 2^(n - i) over the positions i in S
SumOfPowers(S, n) ==
    IF S = {} THEN 0
    ELSE LET i == CHOOSE j \in S : TRUE
         IN 2^(n - i) + SumOfPowers(S \ {i}, n)

\* the natural number (capped at Horizon) that the bits x are as a uint
Value(x) ==
    IF \E i \in Ones(x) : Len(x) - i >= 30 THEN Horizon
    ELSE SumOfPowers(Ones(x), Len(x))

\* the uint n and the largest uint
Uint(n) == NatBits(n, DurationBits)
MaxUint == [i \in 1..DurationBits |-> 1]

\* int(u) (line 46): the same 64 bits read in two's complement, so that a
\* uint of 2^63 or more becomes negative (magnitudes capped at Horizon)
ToInt(u) == IF IsNegative(u) THEN -Value(Negate(u)) ELSE Value(u)

\* time.Second * 2 << d (line 49)
RetryDelay(d) == ShiftLeft(TwoSeconds, d)

\* the whole seconds of time.Second * 2 << d for every shift count d >= 0,
\* worked out once; a count above 64 gives what 64 gives
RetryDelaySeconds == [d \in 0..DurationBits |-> FloorSeconds(RetryDelay(d))]

\* t.Add(time.Second * 2 << d), for t in whole seconds: the last whole
\* second that is not after the result.  A whole-second instant is after
\* the result exactly when it is after this second.
TimeAdd(t, d) == t + RetryDelaySeconds[IF d > DurationBits THEN DurationBits ELSE d]

After(t, u) == t > u

---------------------------------------------------------------------------
(* The closure returned by DatabaseBreaker (lines 44-68).                  *)
(*                                                                         *)
(* A call in progress is a record                                          *)
(*   who   "main", "retry" (the two callers of main()) or "caller"         *)
(*   args  the context and the url the caller passed                       *)
(*   pc    the line the call is at: "L45" before RLock, "L46" holding the  *)
(*         read lock, "L57" inside dbCircuit, "L59" before Lock, "L61"     *)
(*         holding the write lock                                          *)
(*   d     the local d of line 46 (0 until it is computed)                 *)
(*   inv   how many times this call has invoked dbCircuit                  *)
(*   age   the seconds this call has spent inside dbCircuit (Spec only)    *)
(*   passed  the arguments dbCircuit was invoked with                      *)
(*   db, err  what dbCircuit returned (line 57)                            *)

NoArgs == [ctx |-> "-", url |-> "-"]
Nil == 0
Unavailable == "service unavailable"      \* line 52
FactoryError == "factory error"           \* whatever dbCircuit returned
NoError == "nil"

NewCall(w, a) ==
    [who |-> w, args |-> a, pc |-> "L45", d |-> 0, inv |-> 0, age |-> 0,
     passed |-> NoArgs, db |-> Nil, err |-> NoError]

InProgress == BagToSet(calls)
Replace(r, r2) == (calls (-) SetToBag({r})) (+) SetToBag({r2})
Remove(r) == calls (-) SetToBag({r})
\* the number of calls in progress that are at one of the lines in pcs
CountAt(b, pcs) == BagCardinality([r \in {x \in BagToSet(b) : x.pc \in pcs} |-> b[r]])

\* the record of the last step: the operation, the call it belongs to, the
\* state it started from and what it returned
Event(op, r, res) ==
    [op |-> op, who |-> r.who, args |-> r.args, passed |-> r.passed, d |-> r.d,
     inv |-> r.inv, fdb |-> r.db, ferr |-> r.err,
     cf0 |-> consecutiveFailures, la0 |-> lastAttempt, invoked0 |-> invoked,
     db |-> res[1], res |-> res[2]]
NoCall == NewCall("-", NoArgs)
\* a step that returns nothing to a caller
Plain(op) == Event(op, NoCall, <<Nil, "-">>)

\* a value handed back to main or to the goroutine; other callers drop it
NoReturn == [set |-> FALSE, db |-> Nil, err |-> NoError]
Return(w, db, err) ==
    IF w \in DOMAIN rets THEN [rets EXCEPT ![w] = [set |-> TRUE, db |-> db, err |-> err]]
    ELSE rets

\* line 46 with the threshold taken one too high
DifferenceOffByOne == consecutiveFailures - ToInt(failureThreshold) - 1

\* line 46.  The counts and the thresholds of the model are such that the
\* subtraction itself stays far inside 64 bits.
Difference == consecutiveFailures - ToInt(failureThreshold)

\* line 49
shouldRetryAt(d) == TimeAdd(lastAttempt, d)

\* the rejection with the threshold test off by one, both ways
ShortCircuitEarly(d) == d + 1 >= 0 /\ ~After(now, shouldRetryAt(d + 1))
ShortCircuitLate(d) == d > 0 /\ ~After(now, shouldRetryAt(d))

\* lines 48-50: the call is rejected
ShortCircuit(d) == d >= 0 /\ ~After(now, shouldRetryAt(d))

\* the count taken down by one on a success instead of the reset of line 66
NextFailuresDecay(r) == IF r.err # NoError THEN consecutiveFailures + 1 ELSE consecutiveFailures - 1
\* the count without the reset of line 66
NextFailuresNoReset(r) == IF r.err # NoError THEN consecutiveFailures + 1 ELSE consecutiveFailures
\* the count incremented from the value read at line 46
NextFailuresStale(r) == IF r.err # NoError THEN r.d + ToInt(failureThreshold) + 1 ELSE 0

\* lines 62-66
NextFailures(r) == IF r.err # NoError THEN consecutiveFailures + 1 ELSE 0

\* line 61 left out
NextLastAttemptStale == lastAttempt

\* line 61
NextLastAttempt == now

\* dbCircuit's error replaced by the breaker's own
ResultMasked(r) == IF r.err # NoError THEN <<Nil, Unavailable>> ELSE <<r.db, NoError>>

\* lines 64 and 67: what the call returns after dbCircuit
Result(r) == IF r.err # NoError THEN <<r.db, r.err>> ELSE <<r.db, NoError>>

\* lines 40-42: the state DatabaseBreaker creates
DatabaseBreaker(threshold) ==
    /\ failureThreshold = threshold
    /\ consecutiveFailures = 0
    /\ lastAttempt = now
    /\ mu = [readers |-> 0, writer |-> FALSE]

\* line 45.  A reader waits only for a writer that holds the lock; that Go
\* also holds new readers back while a writer waits is left out, so the
\* model has every interleaving of the code and some more.
RLock(r) ==
    /\ r.pc = "L45"
    /\ ~mu.writer
    /\ mu' = [mu EXCEPT !.readers = @ + 1]
    /\ calls' = Replace(r, [r EXCEPT !.pc = "L46"])
    /\ ev' = Plain("Step")
    /\ UNCHANGED <<failureThreshold, consecutiveFailures, lastAttempt, now, rets,
                   histVars, mainVars>>

\* lines 46-57 without the RUnlock of line 51
CheckKeepsLock(r) ==
    /\ r.pc = "L46"
    /\ LET d == Difference IN
       IF ShortCircuit(d)
       THEN /\ calls' = Remove(r)
            /\ rets' = Return(r.who, Nil, Unavailable)
            /\ ev' = Event("Reject", [r EXCEPT !.d = d], <<Nil, Unavailable>>)
            /\ UNCHANGED <<invoked, mu>>
       ELSE LET r2 == [r EXCEPT !.pc = "L57", !.d = d, !.inv = @ + 1, !.passed = r.args]
            IN /\ calls' = Replace(r, r2)
               /\ mu' = [mu EXCEPT !.readers = @ - 1]
               /\ invoked' = invoked + 1
               /\ ev' = Event("Admit", r2, <<Nil, "-">>)
               /\ UNCHANGED rets
    /\ UNCHANGED <<failureThreshold, consecutiveFailures, lastAttempt, now,
                   started, failures, successes, peak, granted, mainVars>>

\* lines 46-57: the admission check under the read lock; the call either
\* returns "service unavailable" or enters dbCircuit with its own arguments
Check(r) ==
    /\ r.pc = "L46"
    /\ mu' = [mu EXCEPT !.readers = @ - 1]
    /\ LET d == Difference IN
       IF ShortCircuit(d)
       THEN /\ calls' = Remove(r)
            /\ rets' = Return(r.who, Nil, Unavailable)
            /\ ev' = Event("Reject", [r EXCEPT !.d = d], <<Nil, Unavailable>>)
            /\ UNCHANGED invoked
       ELSE LET r2 == [r EXCEPT !.pc = "L57", !.d = d, !.inv = @ + 1, !.passed = r.args]
            IN /\ calls' = Replace(r, r2)
               /\ invoked' = invoked + 1
               /\ ev' = Event("Admit", r2, <<Nil, "-">>)
               /\ UNCHANGED rets
    /\ UNCHANGED <<failureThreshold, consecutiveFailures, lastAttempt, now,
                   started, failures, successes, peak, granted, mainVars>>

\* line 57: dbCircuit returns a connection (ok) or an error
FactoryReturn(r, ok) ==
    /\ r.pc = "L57"
    /\ calls' = Replace(r, [r EXCEPT !.pc = "L59",
                                      !.db = IF ok THEN invoked ELSE Nil,
                                      !.err = IF ok THEN NoError ELSE FactoryError])
    /\ failures' = IF ok THEN failures ELSE failures + 1
    /\ successes' = IF ok THEN successes + 1 ELSE successes
    /\ ev' = Plain("Step")
    /\ UNCHANGED <<gateVars, now, rets, started, invoked, peak, granted, mainVars>>

\* line 59
Lock(r) ==
    /\ r.pc = "L59"
    /\ ~mu.writer /\ mu.readers = 0
    /\ mu' = [mu EXCEPT !.writer = TRUE]
    /\ calls' = Replace(r, [r EXCEPT !.pc = "L61"])
    /\ ev' = Plain("Step")
    /\ UNCHANGED <<failureThreshold, consecutiveFailures, lastAttempt, now, rets,
                   histVars, mainVars>>

\* lines 61-67 and the deferred Unlock of line 60
Update(r) ==
    /\ r.pc = "L61"
    /\ lastAttempt' = NextLastAttempt
    /\ consecutiveFailures' = NextFailures(r)
    /\ mu' = [mu EXCEPT !.writer = FALSE]
    /\ calls' = Remove(r)
    /\ rets' = Return(r.who, Result(r)[1], Result(r)[2])
    /\ granted' = IF Result(r)[2] = NoError THEN Append(granted, Result(r)[1]) ELSE granted
    /\ ev' = Event("Update", r, Result(r))
    /\ UNCHANGED <<failureThreshold, now, started, invoked, failures, successes, peak,
                   mainVars>>

\* a caller calls the closure (line 44)
Start(w, a) ==
    /\ calls' = calls (+) SetToBag({NewCall(w, a)})
    /\ started' = started + 1
    /\ peak' = IF BagCardinality(calls') > peak THEN BagCardinality(calls') ELSE peak
    /\ ev' = Plain("Step")

---------------------------------------------------------------------------
(* SpecGate: a breaker of any threshold used by concurrent callers.        *)

GateArgs == {[ctx |-> "ctx1", url |-> "url1"], [ctx |-> "ctx2", url |-> "url2"]}

Thresholds == {Uint(t) : t \in 0..MaxThreshold}

InitEvent ==
    [op |-> "Init", who |-> "-", args |-> NoArgs, passed |-> NoArgs, d |-> 0, inv |-> 0,
     fdb |-> Nil, ferr |-> NoError, cf0 |-> 0, la0 |-> 0, invoked0 |-> 0,
     db |-> Nil, res |-> "-"]

MainOff ==
    /\ mainPc = "off" /\ retryPc = "off" /\ roachdb = Nil
    /\ dbStream = "nil" /\ wait = "nil" /\ routineDeadline = 0
    /\ ticker = [active |-> FALSE, next |-> 0, buffered |-> FALSE]
    /\ spawned = 0 /\ failLines = 0

NoHistory ==
    /\ started = 0 /\ invoked = 0 /\ failures = 0 /\ successes = 0 /\ peak = 0
    /\ granted = <<>>

GateInit ==
    /\ now = 0
    /\ \E t \in Thresholds : DatabaseBreaker(t)
    /\ calls = EmptyBag
    /\ rets = [w \in {"main", "retry"} |-> NoReturn]
    /\ NoHistory
    /\ ev = InitEvent
    /\ MainOff

CallerStart ==
    /\ BagCardinality(calls) < NumCallers
    /\ started < MaxCalls
    /\ \E a \in GateArgs : Start("caller", a)
    /\ UNCHANGED <<gateVars, now, rets, invoked, failures, successes, granted, mainVars>>

GateTick ==
    /\ now < MaxTime
    /\ now' = now + 1
    /\ ev' = Plain("Step")
    /\ UNCHANGED <<gateVars, calls, rets, histVars, mainVars>>

GateNext ==
    \/ CallerStart
    \/ GateTick
    \/ \E r \in InProgress : RLock(r)
    \/ \E r \in InProgress : Check(r)
    \/ \E r \in InProgress : \E ok \in BOOLEAN : FactoryReturn(r, ok)
    \/ \E r \in InProgress : Lock(r)
    \/ \E r \in InProgress : Update(r)

SpecGate == GateInit /\ [][GateNext]_vars

---------------------------------------------------------------------------
(* SpecWide: SpecGate for a breaker made with the largest threshold a uint *)
(* holds, 2^64 - 1, which int(failureThreshold) turns into -1.             *)

WideInit ==
    /\ now = 0
    /\ DatabaseBreaker(MaxUint)
    /\ calls = EmptyBag
    /\ rets = [w \in {"main", "retry"} |-> NoReturn]
    /\ NoHistory
    /\ ev = InitEvent
    /\ MainOff

SpecWide == WideInit /\ [][GateNext]_vars

---------------------------------------------------------------------------
(* SpecStorm: the database is down and StormCallers callers call a breaker *)
(* of threshold 1 within the same second.  Callers pass the admission      *)
(* check one at a time and dbCircuit's errors come back one at a time.     *)

StormArgs == [ctx |-> "ctx1", url |-> "url1"]

StormInit ==
    /\ now = 0
    /\ DatabaseBreaker(Uint(1))
    /\ calls = EmptyBag
    /\ rets = [w \in {"main", "retry"} |-> NoReturn]
    /\ NoHistory
    /\ ev = InitEvent
    /\ MainOff

StormStart ==
    /\ started < StormCallers
    /\ CountAt(calls, {"L45", "L46"}) = 0
    /\ Start("caller", StormArgs)
    /\ UNCHANGED <<gateVars, now, rets, invoked, failures, successes, granted, mainVars>>

StormFactoryReturn ==
    /\ CountAt(calls, {"L59", "L61"}) = 0
    /\ \E r \in InProgress : FactoryReturn(r, FALSE)

StormNext ==
    \/ StormStart
    \/ StormFactoryReturn
    \/ \E r \in InProgress : RLock(r)
    \/ \E r \in InProgress : Check(r)
    \/ \E r \in InProgress : Lock(r)
    \/ \E r \in InProgress : Update(r)

SpecStorm == StormInit /\ [][StormNext]_vars

---------------------------------------------------------------------------
(* Spec: main() (lines 71-110).                                            *)
(*                                                                         *)
(* mainPc: "L74" before the first call, "L74r" waiting for it to return,   *)
(* "L95" receiving from dbStream, "L96" receiving from wait, "L98" before  *)
(* the log line "database connected", "L99" after it, "exit" after         *)
(* log.Fatalf.  retryPc: "off" while there is no goroutine, "L80", "L81"   *)
(* (making the ticker), "L81r" (receiving a tick), "L82", "L86r" (waiting  *)
(* for the call to return), "L89" (sending on dbStream), "L90", "done",    *)
(* "exit".  rets holds the db and err each of the two got from its call.   *)

Threshold == 4              \* line 72
DeadlineSeconds == 32       \* line 80
TickSeconds == 4            \* line 81
ProgramArgs == [ctx |-> "Background", url |-> "database_url"]
Running == mainPc \notin {"off", "L99", "exit"}

Init ==
    /\ now = 0
    /\ DatabaseBreaker(Uint(Threshold))
    /\ calls = EmptyBag
    /\ rets = [w \in {"main", "retry"} |-> NoReturn]
    /\ NoHistory
    /\ ev = InitEvent
    /\ mainPc = "L74" /\ retryPc = "off" /\ roachdb = Nil
    /\ dbStream = "nil" /\ wait = "nil" /\ routineDeadline = 0
    /\ ticker = [active |-> FALSE, next |-> 0, buffered |-> FALSE]
    /\ spawned = 0 /\ failLines = 0

\* line 74: main calls the breaker
MainCall ==
    /\ mainPc = "L74"
    /\ Start("main", ProgramArgs)
    /\ mainPc' = "L74r"
    /\ rets' = [rets EXCEPT !["main"] = NoReturn]
    /\ UNCHANGED <<gateVars, now, invoked, failures, successes, granted,
                   retryPc, roachdb, dbStream, wait, routineDeadline, ticker,
                   spawned, failLines>>

\* lines 75-79 entered whatever the call returned
MainBranchAlways ==
    /\ mainPc = "L74r" /\ rets["main"].set
    /\ roachdb' = rets["main"].db
    /\ wait' = "open" /\ dbStream' = "open"
    /\ retryPc' = "L80" /\ spawned' = spawned + 1
    /\ mainPc' = "L95"
    /\ ev' = Plain("MainBranch")
    /\ UNCHANGED <<gateVars, now, calls, rets, histVars, routineDeadline, ticker, failLines>>

\* lines 74-79: the call has returned; on an error main makes the two
\* channels, starts the goroutine and goes on to receive (line 95)
MainBranch ==
    /\ mainPc = "L74r" /\ rets["main"].set
    /\ roachdb' = rets["main"].db
    /\ IF rets["main"].err # NoError
       THEN /\ wait' = "open" /\ dbStream' = "open"
            /\ retryPc' = "L80" /\ spawned' = spawned + 1
            /\ mainPc' = "L95"
       ELSE /\ mainPc' = "L98"
            /\ UNCHANGED <<wait, dbStream, retryPc, spawned>>
    /\ ev' = Plain("MainBranch")
    /\ UNCHANGED <<gateVars, now, calls, rets, histVars, routineDeadline, ticker, failLines>>

\* line 80
RetryDeadline ==
    /\ Running /\ retryPc = "L80"
    /\ routineDeadline' = now + DeadlineSeconds
    /\ retryPc' = "L81"
    /\ ev' = Plain("RetryDeadline")
    /\ UNCHANGED <<gateVars, now, calls, rets, histVars, mainPc, roachdb, dbStream,
                   wait, ticker, spawned, failLines>>

\* line 81: time.Tick makes the ticker
RetryTicker ==
    /\ Running /\ retryPc = "L81"
    /\ ticker' = [active |-> TRUE, next |-> now + TickSeconds, buffered |-> FALSE]
    /\ retryPc' = "L81r"
    /\ ev' = Plain("RetryTicker")
    /\ UNCHANGED <<gateVars, now, calls, rets, histVars, mainPc, roachdb, dbStream,
                   wait, routineDeadline, spawned, failLines>>

\* the ticker of line 81 fires: its channel holds one tick, a tick that
\* finds it full is dropped
TickerFire ==
    /\ Running /\ ticker.active /\ now >= ticker.next
    /\ ticker' = [ticker EXCEPT !.buffered = TRUE, !.next = @ + TickSeconds]
    /\ ev' = Plain("TickerFire")
    /\ UNCHANGED <<gateVars, now, calls, rets, histVars, mainPc, retryPc, roachdb,
                   dbStream, wait, routineDeadline, spawned, failLines>>

\* line 81: the loop receives a tick
RetryReceive ==
    /\ Running /\ retryPc = "L81r" /\ ticker.buffered
    /\ ticker' = [ticker EXCEPT !.buffered = FALSE]
    /\ retryPc' = "L82"
    /\ ev' = Plain("RetryReceive")
    /\ UNCHANGED <<gateVars, now, calls, rets, histVars, mainPc, roachdb, dbStream,
                   wait, routineDeadline, spawned, failLines>>

\* lines 82-86 with the deadline check passing at the deadline itself
RetryAttemptEager ==
    /\ Running /\ retryPc = "L82"
    /\ IF now >= routineDeadline
       THEN /\ mainPc' = "exit" /\ retryPc' = "exit"
            /\ ev' = Plain("Fatal")
            /\ UNCHANGED <<calls, started, peak, rets>>
       ELSE /\ Start("retry", ProgramArgs)
            /\ retryPc' = "L86r"
            /\ rets' = [rets EXCEPT !["retry"] = NoReturn]
            /\ UNCHANGED mainPc
    /\ UNCHANGED <<gateVars, now, invoked, failures, successes, granted, roachdb,
                   dbStream, wait, routineDeadline, ticker, spawned, failLines>>

\* lines 82-86 without the deadline check of lines 82-84
RetryAttemptNoDeadline ==
    /\ Running /\ retryPc = "L82"
    /\ Start("retry", ProgramArgs)
    /\ retryPc' = "L86r"
    /\ rets' = [rets EXCEPT !["retry"] = NoReturn]
    /\ UNCHANGED <<gateVars, now, invoked, failures, successes, granted, mainPc, roachdb,
                   dbStream, wait, routineDeadline, ticker, spawned, failLines>>

\* lines 82-86: past the deadline log.Fatalf ends the process; otherwise
\* the goroutine calls the breaker
RetryAttempt ==
    /\ Running /\ retryPc = "L82"
    /\ IF After(now, routineDeadline)
       THEN /\ mainPc' = "exit" /\ retryPc' = "exit"
            /\ ev' = Plain("Fatal")
            /\ UNCHANGED <<calls, started, peak, rets>>
       ELSE /\ Start("retry", ProgramArgs)
            /\ retryPc' = "L86r"
            /\ rets' = [rets EXCEPT !["retry"] = NoReturn]
            /\ UNCHANGED mainPc
    /\ UNCHANGED <<gateVars, now, invoked, failures, successes, granted, roachdb,
                   dbStream, wait, routineDeadline, ticker, spawned, failLines>>

\* lines 86-88 with line 87 printing for the connection as well
RetryBranchLoud ==
    /\ Running /\ retryPc = "L86r" /\ rets["retry"].set
    /\ failLines' = failLines + 1
    /\ retryPc' = IF rets["retry"].err # NoError THEN "L81r" ELSE "L89"
    /\ ev' = Plain("RetryBranch")
    /\ UNCHANGED <<gateVars, now, calls, rets, histVars, mainPc, roachdb, dbStream,
                   wait, routineDeadline, ticker, spawned>>

\* lines 86-88 with the loop left on "service unavailable"
RetryBranchGivesUp ==
    /\ Running /\ retryPc = "L86r" /\ rets["retry"].set
    /\ IF rets["retry"].err = Unavailable
       THEN failLines' = failLines + 1 /\ retryPc' = "done"
       ELSE IF rets["retry"].err # NoError
       THEN failLines' = failLines + 1 /\ retryPc' = "L81r"
       ELSE failLines' = failLines /\ retryPc' = "L89"
    /\ ev' = Plain("RetryBranch")
    /\ UNCHANGED <<gateVars, now, calls, rets, histVars, mainPc, roachdb, dbStream,
                   wait, routineDeadline, ticker, spawned>>

\* lines 86-92 with the send of line 89 and the close of line 90 left out
RetryBranchSilent ==
    /\ Running /\ retryPc = "L86r" /\ rets["retry"].set
    /\ IF rets["retry"].err # NoError
       THEN failLines' = failLines + 1 /\ retryPc' = "L81r"
       ELSE failLines' = failLines /\ retryPc' = "done"
    /\ ev' = Plain("RetryBranch")
    /\ UNCHANGED <<gateVars, now, calls, rets, histVars, mainPc, roachdb, dbStream,
                   wait, routineDeadline, ticker, spawned>>

\* lines 86-88: the call has returned; an error is printed (line 87) and
\* the loop goes on, a connection is sent (line 89)
RetryBranch ==
    /\ Running /\ retryPc = "L86r" /\ rets["retry"].set
    /\ IF rets["retry"].err # NoError
       THEN failLines' = failLines + 1 /\ retryPc' = "L81r"
       ELSE failLines' = failLines /\ retryPc' = "L89"
    /\ ev' = Plain("RetryBranch")
    /\ UNCHANGED <<gateVars, now, calls, rets, histVars, mainPc, roachdb, dbStream,
                   wait, routineDeadline, ticker, spawned>>

\* lines 89 and 95: dbStream has no buffer, the send and the receive meet
Handoff ==
    /\ retryPc = "L89" /\ mainPc = "L95" /\ dbStream = "open"
    /\ roachdb' = rets["retry"].db
    /\ mainPc' = "L96"
    /\ retryPc' = "L90"
    /\ ev' = Plain("Handoff")
    /\ UNCHANGED <<gateVars, now, calls, rets, histVars, dbStream, wait,
                   routineDeadline, ticker, spawned, failLines>>

\* line 91 without the close of line 90
RetryCloseForgets ==
    /\ Running /\ retryPc = "L90" /\ wait = "open"
    /\ retryPc' = "done"
    /\ ev' = Plain("RetryClose")
    /\ UNCHANGED <<gateVars, now, calls, rets, histVars, mainPc, roachdb, dbStream,
                   wait, routineDeadline, ticker, spawned, failLines>>

\* line 90 without the break of line 91
RetryCloseNoBreak ==
    /\ Running /\ retryPc = "L90" /\ wait = "open"
    /\ wait' = "closed"
    /\ retryPc' = "L81r"
    /\ ev' = Plain("RetryClose")
    /\ UNCHANGED <<gateVars, now, calls, rets, histVars, mainPc, roachdb, dbStream,
                   routineDeadline, ticker, spawned, failLines>>

\* lines 90-91: close(wait) and break
RetryClose ==
    /\ Running /\ retryPc = "L90" /\ wait = "open"
    /\ wait' = "closed"
    /\ retryPc' = "done"
    /\ ev' = Plain("RetryClose")
    /\ UNCHANGED <<gateVars, now, calls, rets, histVars, mainPc, roachdb, dbStream,
                   routineDeadline, ticker, spawned, failLines>>

\* line 96
MainWait ==
    /\ mainPc = "L96" /\ wait = "closed"
    /\ mainPc' = "L98"
    /\ ev' = Plain("MainWait")
    /\ UNCHANGED <<gateVars, now, calls, rets, histVars, retryPc, roachdb, dbStream,
                   wait, routineDeadline, ticker, spawned, failLines>>

\* line 98: "database connected"
MainConnected ==
    /\ mainPc = "L98"
    /\ mainPc' = "L99"
    /\ ev' = Plain("MainConnected")
    /\ UNCHANGED <<gateVars, now, calls, rets, histVars, retryPc, roachdb, dbStream,
                   wait, routineDeadline, ticker, spawned, failLines>>

\* Some step of main or of the goroutine can be taken without waiting for
\* dbCircuit, for a tick or for the other side of a channel.  Such steps
\* take far less than a second, except that the ticker of line 81 may be
\* made up to MaxLatency seconds after line 80 has read the clock.
Urgent ==
    \/ mainPc \in {"L74", "L98"}
    \/ mainPc = "L74r" /\ rets["main"].set
    \/ mainPc = "L96" /\ wait = "closed"
    \/ retryPc \in {"L80", "L82", "L90"}
    \/ retryPc = "L81" /\ now >= routineDeadline - DeadlineSeconds + MaxLatency
    \/ retryPc = "L81r" /\ ticker.buffered
    \/ retryPc = "L86r" /\ rets["retry"].set
    \/ retryPc = "L89" /\ mainPc = "L95"
    \/ \E r \in InProgress : r.pc # "L57"

\* a second passes; a ticker that is due fires first
ClockTick ==
    /\ Running /\ now < MaxClock
    /\ ~Urgent
    /\ ~(ticker.active /\ now >= ticker.next)
    /\ \A r \in InProgress : r.age < MaxLatency
    /\ now' = now + 1
    /\ calls' = BagOfAll(LAMBDA r : [r EXCEPT !.age = @ + 1], calls)
    /\ ev' = Plain("Step")
    /\ UNCHANGED <<gateVars, rets, histVars, mainVars>>

Next ==
    \/ MainCall
    \/ MainBranch
    \/ RetryDeadline
    \/ RetryTicker
    \/ TickerFire
    \/ RetryReceive
    \/ RetryAttempt
    \/ RetryBranch
    \/ Handoff
    \/ RetryClose
    \/ MainWait
    \/ MainConnected
    \/ ClockTick
    \/ \E r \in InProgress : RLock(r)
    \/ \E r \in InProgress : Check(r)
    \/ \E r \in InProgress : \E ok \in BOOLEAN : FactoryReturn(r, ok)
    \/ \E r \in InProgress : Lock(r)
    \/ \E r \in InProgress : Update(r)

Spec == Init /\ [][Next]_vars

\* FairSpec: Spec with the progress the Go runtime gives.  A goroutine that
\* can run does run, a ticker that is due does fire, the clock goes on, and
\* dbCircuit returns (within MaxLatency seconds, by ClockTick).
MainStep == MainCall \/ MainBranch \/ MainWait \/ MainConnected
RetryStep ==
    \/ RetryDeadline \/ RetryTicker \/ RetryReceive \/ RetryAttempt
    \/ RetryBranch \/ RetryClose
ClosureStep == \E r \in InProgress : RLock(r) \/ Check(r) \/ Lock(r) \/ Update(r)
FactoryStep == \E r \in InProgress : \E ok \in BOOLEAN : FactoryReturn(r, ok)

FairSpec ==
    /\ Spec
    /\ WF_vars(MainStep) /\ WF_vars(RetryStep) /\ WF_vars(Handoff)
    /\ WF_vars(ClosureStep) /\ WF_vars(FactoryStep)
    /\ WF_vars(TickerFire) /\ WF_vars(ClockTick)

---------------------------------------------------------------------------
(* SpecDown: main() with the database down and nothing slow: dbCircuit     *)
(* returns an error, and at once, every time it is invoked, and the ticker *)
(* of line 81 is made in the second in which line 80 read the clock or in  *)
(* the next, so that time passes only there and between the ticks.         *)
(* Nothing is ever sent on dbStream, and lines 89-98 are out of reach.     *)

DownFactoryReturn == \E r \in InProgress : FactoryReturn(r, FALSE)

DownTick ==
    /\ calls = EmptyBag
    /\ retryPc = "L81" => now < routineDeadline - DeadlineSeconds + 1
    /\ ClockTick

DownNext ==
    \/ MainCall
    \/ MainBranch
    \/ RetryDeadline
    \/ RetryTicker
    \/ TickerFire
    \/ RetryReceive
    \/ RetryAttempt
    \/ RetryBranch
    \/ DownTick
    \/ DownFactoryReturn
    \/ \E r \in InProgress : RLock(r)
    \/ \E r \in InProgress : Check(r)
    \/ \E r \in InProgress : Lock(r)
    \/ \E r \in InProgress : Update(r)

SpecDown == Init /\ [][DownNext]_vars

---------------------------------------------------------------------------
(* Properties of the breaker.                                              *)

\* 2^k seconds, capped at Horizon
PowerOfTwo(k) == IF k >= 30 THEN Horizon ELSE 2^k

Checked == ev.op \in {"Admit", "Reject"}

\* the threshold T as a number (Horizon stands for 2^30 and more), and
\* whether it is one that int holds, T < 2^63
ThresholdValue == Value(failureThreshold)
FitsInt == ~IsNegative(failureThreshold)
\* the largest d for which time.Second * 2 << d is still 2^(d+1) seconds
MaxShift == 32

\* C1: a failed call that reached dbCircuit leaves consecutiveFailures one
\* above its value at the update, a successful one leaves it 0, and no other
\* step changes it.
C1_FailureCount ==
    /\ (ev.op = "Update" /\ ev.ferr # NoError) => consecutiveFailures = ev.cf0 + 1
    /\ (ev.op = "Update" /\ ev.ferr = NoError) => consecutiveFailures = 0
    /\ ev.op # "Update" => consecutiveFailures = ev.cf0

\* a success has reset a count of two or more
C1_Witness ==
    ev.op = "Update" /\ ev.ferr = NoError /\ ev.cf0 >= 2 /\ consecutiveFailures = 0

\* C2: a rejected call does not invoke dbCircuit and leaves
\* consecutiveFailures and lastAttempt as they were; lastAttempt is set to
\* the current time by every call that reached dbCircuit and by no other
\* step.
C2_LastAttemptFrame ==
    /\ ev.op = "Reject" =>
          /\ consecutiveFailures = ev.cf0 /\ lastAttempt = ev.la0
          /\ ev.inv = 0 /\ invoked = ev.invoked0
    /\ ev.op = "Update" => lastAttempt = now /\ ev.inv = 1
    /\ ev.op # "Update" => lastAttempt = ev.la0

\* a call was rejected some time after the last attempt
C2_Witness ==
    ev.op = "Reject" /\ ev.res = Unavailable /\ now > lastAttempt /\ ev.cf0 > 0

\* C3: with d = consecutiveFailures - threshold at the start of the call,
\* the call is rejected without invoking dbCircuit exactly when d >= 0 and
\* the current time is not after lastAttempt + 2^(d+1) seconds; otherwise
\* dbCircuit is invoked once with the caller's context and url.
C3_AdmissionRule ==
    Checked =>
        LET d == ev.cf0 - ThresholdValue IN
        /\ ev.op = "Reject" <=> (d >= 0 /\ ~(now > ev.la0 + PowerOfTwo(d + 1)))
        /\ ev.op = "Reject" => ev.res = Unavailable /\ ev.inv = 0 /\ invoked = ev.invoked0
        /\ ev.op = "Admit" => ev.inv = 1 /\ invoked = ev.invoked0 + 1 /\ ev.passed = ev.args

\* the calls of one caller, one after the other, dbCircuit failing each time
SingleCaller == peak <= 1 /\ successes = 0

\* C4: one caller, dbCircuit always failing, calls numbered from 1: call
\* i <= threshold reaches dbCircuit; call i > threshold made before
\* lastAttempt + 2^((i - threshold) + 1) seconds is rejected.
C4_BackoffByCallNumber ==
    (SingleCaller /\ Checked) =>
        LET i == started
            T == ThresholdValue IN
        /\ i <= T => ev.op = "Admit"
        /\ (i > T /\ now < ev.la0 + PowerOfTwo((i - T) + 1)) => ev.op = "Reject"

\* C4 as amended, for a threshold below 2^63: call i > threshold finds
\* k = consecutiveFailures earlier calls that reached dbCircuit,
\* threshold <= k <= i - 1, and with k - threshold <= MaxShift is rejected
\* when made before lastAttempt + 2^((k - threshold) + 1) seconds, which is
\* at most 2^(i - threshold) seconds.
C4_BackoffByFailures ==
    (SingleCaller /\ Checked /\ FitsInt) =>
        LET i == started
            k == ev.invoked0
            T == ThresholdValue IN
        /\ i <= T => ev.op = "Admit"
        /\ i > T =>
             /\ k = ev.cf0 /\ T <= k /\ k <= i - 1
             /\ (k - T <= MaxShift /\ now < ev.la0 + PowerOfTwo((k - T) + 1))
                    => ev.op = "Reject"
             /\ (ev.op = "Reject" /\ k = i - 1) => now <= ev.la0 + PowerOfTwo(i - T)

\* the single caller is rejected with two failures beyond the threshold
\* counted, after an earlier call was rejected too
C4_Witness ==
    /\ SingleCaller /\ ev.op = "Reject"
    /\ FitsInt /\ ev.cf0 = ThresholdValue + 1
    /\ started > ev.invoked0 + 1

\* C5: whenever consecutiveFailures is 0 the next call reaches dbCircuit,
\* for every threshold, 0 included.
C5_OpenAtZero == (Checked /\ ev.cf0 = 0) => ev.op = "Admit"

\* C5 as amended: the same for every threshold of at least 1 and below 2^63.
C5_OpenAtZeroAboveZero ==
    (Checked /\ ev.cf0 = 0 /\ ThresholdValue >= 1 /\ FitsInt) => ev.op = "Admit"

\* a call made in the second of the success that reset the count is admitted
C5_Witness ==
    /\ ev.op = "Admit" /\ ev.cf0 = 0 /\ ThresholdValue >= 1 /\ FitsInt
    /\ failures >= 1 /\ successes >= 1 /\ BagCardinality(calls) = 1
    /\ now = ev.la0 /\ now > 0

\* C6: while dbCircuit has only failed, consecutiveFailures plus the
\* failures not yet counted (calls between lines 57 and 63) is the number
\* of failed invocations: no increment is lost, whatever the interleaving.
C6_NoLostUpdate ==
    successes = 0 =>
        consecutiveFailures + CountAt(calls, {"L59", "L61"}) = failures

\* two calls that both read d < 0 have failed and returned, the second
\* updating after the first
C6_Witness ==
    /\ ev.op = "Update" /\ ev.d < 0
    /\ FitsInt /\ ev.cf0 = ev.d + ThresholdValue + 1
    /\ successes = 0 /\ failures = 2 /\ started = 2
    /\ calls = EmptyBag /\ consecutiveFailures = 2

\* C7: a call that reached dbCircuit returns exactly what dbCircuit
\* returned; "service unavailable" is returned only by calls that did not
\* invoke dbCircuit; no call invokes dbCircuit more than once.
C7_ResultPassedThrough ==
    /\ ev.op = "Update" =>
          /\ ev.res = ev.ferr /\ ev.db = ev.fdb
          /\ ev.inv = 1
          /\ ev.ferr = NoError <=> ev.db # Nil
    /\ ev.res = Unavailable => ev.op = "Reject" /\ ev.inv = 0
    /\ \A r \in InProgress : r.inv <= 1 /\ (r.inv = 1 <=> r.pc \in {"L57", "L59", "L61"})

\* dbCircuit's error is returned by a breaker that is over its threshold
C7_Witness ==
    ev.op = "Update" /\ ev.res = FactoryError /\ ev.cf0 >= ThresholdValue
    /\ ThresholdValue >= 1

---------------------------------------------------------------------------
(* Properties of main().                                                   *)

Connected == mainPc = "L99"
InitialSucceeded == rets["main"].set /\ rets["main"].err = NoError
InitialFailed == rets["main"].set /\ rets["main"].err # NoError

\* C8: when main logs "database connected", exactly one call of the
\* breaker has returned a connection, main holds that connection, no call
\* is in progress and no goroutine is left to make another.
C8_OneSuccessfulAttempt ==
    Connected =>
        /\ Len(granted) = 1
        /\ roachdb = granted[1] /\ roachdb # Nil
        /\ calls = EmptyBag
        /\ retryPc \in {"off", "done"}

\* main is connected by the goroutine after two failed retries
C8_Witness ==
    Connected /\ spawned = 1 /\ retryPc = "done" /\ failures = 3 /\ roachdb = 4

\* C9: at most one goroutine is ever started, and none (and no channel)
\* unless the first call failed; when the first call succeeds main goes on
\* with its connection after exactly one invocation of dbCircuit.
C9_RetryTaskOnlyAfterFailure ==
    /\ spawned <= 1
    /\ (spawned = 1) = (retryPc # "off")
    /\ (retryPc # "off" \/ dbStream # "nil" \/ wait # "nil") => InitialFailed
    /\ (InitialSucceeded /\ mainPc \notin {"L74", "L74r"}) =>
          /\ mainPc \in {"L98", "L99"}
          /\ invoked = 1 /\ started = 1
          /\ roachdb = rets["main"].db /\ roachdb # Nil
          /\ spawned = 0 /\ retryPc = "off" /\ dbStream = "nil" /\ wait = "nil"

\* the first call succeeded and main is connected
C9_Witness == Connected /\ InitialSucceeded /\ invoked = 1 /\ spawned = 0

\* dbCircuit failed on its first three invocations and succeeded on the
\* fourth
ScenarioB == Connected /\ failures = 3 /\ successes = 1 /\ invoked = 4

\* C10: in scenario B main holds the connection of the fourth invocation
\* and line 87 has printed exactly 3 lines.
C10_ThreeFailureLines == ScenarioB => roachdb = 4 /\ failLines = 3

\* C10 as amended: line 87 has printed exactly 2 lines; the failure of the
\* first call (line 74) is not printed.
C10_TwoFailureLines == ScenarioB => roachdb = 4 /\ failLines = 2 /\ started = 4

\* scenario B has run to "database connected"
C10_Witness == ScenarioB /\ roachdb = 4 /\ failLines = 2 /\ spawned = 1

---------------------------------------------------------------------------
(* Properties of the retry loop.                                           *)

Aborted == mainPc = "exit"

\* C11: while dbCircuit has only failed, no connection is sent on dbStream
\* or held by main; log.Fatalf is issued by the goroutine and only with the
\* clock past routineDeadline; and a run in which dbCircuit never succeeds
\* ends with log.Fatalf.
C11_AllFailuresAbort ==
    /\ [](successes = 0 =>
            /\ roachdb = Nil /\ granted = <<>>
            /\ mainPc \notin {"L96", "L98", "L99"}
            /\ retryPc \notin {"L89", "L90", "done"})
    /\ [](Aborted => retryPc = "exit" /\ spawned = 1 /\ now > routineDeadline)
    /\ (successes = 0) ~> (Aborted \/ successes > 0)

\* log.Fatalf after nothing but failures, some of them rejections
C11_Witness ==
    /\ Aborted /\ successes = 0 /\ failures >= Threshold
    /\ started > invoked /\ roachdb = Nil /\ now > routineDeadline

\* C12: every run reaches "database connected" or log.Fatalf; main leaves
\* the receive of line 95 only with the connection the goroutine got from
\* a call without error, or by the log.Fatalf of the deadline check, and
\* leaves the receive of line 96 only once wait is closed.
C12_CallerNeverWaitsForever ==
    /\ <>(Connected \/ Aborted)
    /\ [][(mainPc = "L95" /\ mainPc' # "L95") =>
             \/ /\ mainPc' = "L96" /\ rets["retry"].err = NoError
                /\ roachdb' = rets["retry"].db /\ roachdb' # Nil
             \/ /\ mainPc' = "exit" /\ retryPc = "L82"
                /\ After(now, routineDeadline)]_vars
    /\ [][(mainPc = "L96" /\ mainPc' # "L96") =>
             (mainPc' = "L98" /\ wait = "closed")]_vars

\* main is connected by the goroutine, which was rejected on the way
C12_Witness ==
    Connected /\ spawned = 1 /\ started > invoked /\ roachdb = invoked

\* C14: on a tick read with the clock past routineDeadline the goroutine
\* issues log.Fatalf and starts no call; on a tick read at or before it the
\* goroutine starts exactly one call; log.Fatalf is issued nowhere else,
\* and the goroutine starts no call but on a tick.
C14_DeadlineCheckFirst ==
    [][/\ (retryPc = "L82" /\ retryPc' # "L82") =>
            IF now > routineDeadline
            THEN Aborted' /\ retryPc' = "exit" /\ started' = started /\ calls' = calls
            ELSE ~Aborted' /\ retryPc' = "L86r" /\ started' = started + 1
       /\ (Aborted' /\ ~Aborted) => (retryPc = "L82" /\ now > routineDeadline)
       /\ (started' # started /\ retryPc # "off") =>
            (retryPc = "L82" /\ now <= routineDeadline /\ started' = started + 1)
      ]_vars

\* a tick read at the deadline itself: the goroutine has started a call
C14_Witness ==
    /\ retryPc = "L86r" /\ now = routineDeadline
    /\ \E r \in InProgress : r.who = "retry" /\ r.pc = "L45"

\* C16: when a call of the goroutine returns an error, "service
\* unavailable" or dbCircuit's, line 87 prints one line, nothing is sent or
\* closed, main stays where it is and the goroutine waits for the next
\* tick; and on every tick read at or before the deadline a call is made,
\* whatever the number of calls and failures before.
C16_RejectionLikeFailure ==
    [][/\ (retryPc = "L86r" /\ retryPc' # "L86r") =>
            IF rets["retry"].err \in {Unavailable, FactoryError}
            THEN /\ failLines' = failLines + 1 /\ retryPc' = "L81r"
                 /\ UNCHANGED <<roachdb, mainPc, dbStream, wait>>
            ELSE /\ rets["retry"].err = NoError
                 /\ failLines' = failLines /\ retryPc' = "L89"
       /\ (retryPc = "L82" /\ retryPc' # "L82" /\ now <= routineDeadline) =>
            (retryPc' = "L86r" /\ started' = started + 1)
      ]_vars

\* the goroutine has printed "service unavailable" and waits for the next
\* tick, after more calls than the threshold
C16_Witness ==
    /\ ev.op = "RetryBranch" /\ rets["retry"].err = Unavailable
    /\ retryPc = "L81r" /\ mainPc = "L95" /\ failLines >= 1
    /\ started > Threshold + 1

\* the calls the goroutine has made (main made the first call)
RetryAttempts == started - 1

\* C17: with dbCircuit always failing, when log.Fatalf ends the process
\* the goroutine has made 8 calls and the last of them was answered with
\* "service unavailable".
C17_EightAttempts ==
    Aborted =>
        /\ RetryAttempts = 8
        /\ rets["retry"].set /\ rets["retry"].err = Unavailable

\* C19: main receives a value from dbStream only at line 95, from the
\* goroutine at line 89 after a call without error, and before wait is
\* closed; once it has, nothing more is sent or received and no call is
\* started; wait is made once and closed once, by the goroutine after main
\* has received, and the goroutine then leaves its loop for good; a send
\* is always received and main always gets from line 96 to line 98.
C19_HandoffProtocol ==
    /\ [][/\ (roachdb' # roachdb /\ mainPc # "L74r") =>
                /\ mainPc = "L95" /\ retryPc = "L89" /\ wait = "open"
                /\ rets["retry"].err = NoError /\ roachdb' = rets["retry"].db
          /\ mainPc \in {"L96", "L98", "L99"} =>
                (roachdb' = roachdb /\ retryPc' # "L89" /\ started' = started)
          /\ wait' # wait =>
                \/ wait = "nil" /\ wait' = "open" /\ mainPc = "L74r"
                \/ /\ wait = "open" /\ wait' = "closed"
                   /\ mainPc = "L96" /\ retryPc = "L90" /\ retryPc' = "done"
          /\ retryPc = "done" => retryPc' = "done"
         ]_vars
    /\ (retryPc = "L89") ~> (retryPc = "done")
    /\ (mainPc = "L96") ~> Connected

\* the connection has been received and wait is not closed yet
C19_Witness ==
    /\ mainPc = "L96" /\ retryPc = "L90" /\ wait = "open"
    /\ roachdb = rets["retry"].db /\ roachdb # Nil

---------------------------------------------------------------------------
(* Properties of the breaker under concurrent callers.                     *)

\* the calls that have passed the check of lines 46-54
Admitted == {r \in InProgress : r.pc \in {"L57", "L59", "L61"}}

\* C13: a call that read a count below the threshold is past the check
\* while the count is at the threshold and the delay has not passed only if
\* calls overlapped; when they do not overlap, a call that finds the count
\* at the threshold within the 2 s delay is rejected and dbCircuit is not
\* invoked.
C13_OverAdmissionNeedsOverlap ==
    /\ (\E r \in Admitted : r.d < 0 /\ ShortCircuit(Difference)) => peak >= 2
    /\ (peak <= 1 /\ Checked /\ FitsInt /\ ThresholdValue >= 1
          /\ ev.cf0 = ThresholdValue /\ now <= ev.la0 + 2)
         => (ev.op = "Reject" /\ invoked = ev.invoked0)

\* the race: two calls started at a count of threshold - 1, both passed the
\* check and both invoked dbCircuit; the first has failed and the second
\* updates in the same second, at a count that would have rejected it
C13_Witness ==
    /\ ev.op = "Update" /\ ev.ferr # NoError
    /\ FitsInt /\ ThresholdValue >= 1
    /\ ev.d = -1 /\ ev.cf0 = ThresholdValue /\ now = ev.la0
    /\ started = 2 /\ invoked = 2 /\ consecutiveFailures = ThresholdValue + 1

\* x < y for two durations that are not negative
Less(x, y) ==
    \E i \in 1..DurationBits : x[i] < y[i] /\ \A j \in 1..(i - 1) : x[j] = y[j]

\* C18: for every d >= 0 with which a call is checked, the delay of line 49
\* is positive, is exactly 2^(d+1) seconds, and is larger than the delay
\* for d - 1.
C18_CooldownNeverWraps ==
    (Checked /\ ev.d >= 0) =>
        LET x == RetryDelay(ev.d) IN
        /\ ~IsNegative(x) /\ x # Zeros(DurationBits)
        /\ DivMod(x) = <<PowerOfTwo(ev.d + 1), 0>>
        /\ ev.d >= 1 => Less(RetryDelay(ev.d - 1), x)

\* C15: the read lock is held by exactly the calls in their admission
\* check (line 46), the write lock by at most one call, in its update
\* (line 61), and never together with a read lock; a call inside dbCircuit
\* holds neither; mu is free when no call is in progress; the count and
\* lastAttempt change only in a step that starts with the write lock held
\* and ends with it released, and the admission check is made with the
\* read lock held and releases it.
C15_LockDiscipline ==
    /\ [](/\ mu.readers = CountAt(calls, {"L46"})
          /\ mu.writer = (CountAt(calls, {"L61"}) = 1)
          /\ CountAt(calls, {"L61"}) <= 1
          /\ mu.writer => mu.readers = 0
          /\ calls = EmptyBag => (mu.readers = 0 /\ ~mu.writer))
    /\ [][/\ (consecutiveFailures' # consecutiveFailures \/ lastAttempt' # lastAttempt)
               => (mu.writer /\ ~mu'.writer)
          /\ ev'.op \in {"Admit", "Reject"}
               => (mu.readers >= 1 /\ ~mu.writer /\ mu'.readers = mu.readers - 1)
          /\ ev'.op = "Update" => (mu.writer /\ ~mu'.writer)
         ]_vars

\* a call is rejected while another call is inside dbCircuit, and no lock
\* is held afterwards
C15_Witness ==
    /\ ev.op = "Reject" /\ mu.readers = 0 /\ ~mu.writer
    /\ \E r \in InProgress : r.pc = "L57"

\* the failed invocations of dbCircuit that an update has counted
CountedFailures ==
    failures - CountAt([r \in {x \in InProgress : x.err # NoError} |-> calls[r]],
                       {"L59", "L61"})

\* C20: consecutiveFailures is never negative; lastAttempt is never before
\* the creation of the gate nor after the clock, never decreases, and is
\* written only with the clock's value and the write lock held; the count
\* goes to 0 in the update of a call without error and otherwise grows
\* only by one, in the update that counts one more failed invocation.
C20_CountAndTimeBounds ==
    /\ [](/\ consecutiveFailures >= 0
          /\ consecutiveFailures <= CountedFailures
          /\ 0 <= lastAttempt /\ lastAttempt <= now)
    /\ [][/\ lastAttempt' >= lastAttempt
          /\ lastAttempt' # lastAttempt => (lastAttempt' = now /\ mu.writer)
          /\ IF ev'.op = "Update" /\ ev'.ferr = NoError
             THEN consecutiveFailures' = 0 /\ CountedFailures' = CountedFailures
             ELSE /\ consecutiveFailures' - consecutiveFailures
                        = CountedFailures' - CountedFailures
                  /\ CountedFailures' - CountedFailures \in {0, 1}
         ]_vars

\* after a success in between, the count is below the number of failed
\* invocations counted, and lastAttempt has moved on from the creation
C20_Witness ==
    /\ consecutiveFailures = 1 /\ CountedFailures = 2 /\ successes = 1
    /\ lastAttempt > 0 /\ calls = EmptyBag

====
